---- MODULE Spec2Model ----
(***************************************************************************)
(* Session registry and message relay of collab-session (src/server.js).   *)
(*                                                                         *)
(* src/server.js holds three snapshots of the relay:                       *)
(*   "mvp"     lines   1-168  function-per-command relay, ws.__meta        *)
(*   "sqlite"  lines 170-437  the same relay plus persistence              *)
(*   "machine" lines 439-676  inline handlers, socketMeta, machineId rule  *)
(* The variable `variant` fixes, for a whole behaviour, which snapshot is  *)
(* running.  The "mvp" and "machine" relays are modelled here.             *)
(*                                                                         *)
(* Text is modelled as sequences of one-character strings so that          *)
(* toUpperCase, trim and the "-k" suffixing are computed, not assumed.     *)
(* JavaScript `undefined` and '' are both falsy and are both written <<>>  *)
(* for session ids and names (every test in the source is a truthiness     *)
(* test or a Map lookup of a key that is never '').                        *)
(***************************************************************************)
EXTENDS Naturals, Sequences, FiniteSets, TLC

VARIABLES variant,     \* which snapshot of server.js is running
          sessions,    \* the `sessions` Map: sid -> session record
          meta,        \* ws.__meta / socketMeta: socket -> metadata record
          readyState,  \* socket -> "NEW" | "OPEN" | "CLOSING" | "CLOSED"
          binds,       \* number of create / join commands accepted so far
          lastPrompt,  \* history: sid -> text of the latest setQuestion that
                       \* took effect on the session now registered as sid
          hist,        \* history: the session closed last by a close command
                       \* and the connections that were bound to it
          isAlive,     \* ws.isAlive / socketMeta isAlive: socket -> BOOLEAN
          probe,       \* history: socket -> what became of the monitor's pings
          db,          \* collab.db: "ok" writes succeed, "failing" writes throw,
                       \* "threw" a write has thrown out of its handler
          cmd,         \* the frame or socket event whose handler has just run
          out          \* events that handler delivered, in send order

vars == <<variant, sessions, meta, readyState, binds, lastPrompt, hist,
          isAlive, probe, db, cmd, out>>

----------------------------------------------------------------------------
(* Bounds and input pools *)

\* create and join commands accepted in one behaviour
MaxBinds == 3

Sockets == {"c1", "c2", "c3"}

\* the clients that send create frames (and feedback frames) and the clients
\* that send join frames
Creators == {"c1", "c2"}
Joiners == {"c2", "c3"}

Variants == {"mvp", "machine"}

\* session identifiers as typed by clients ('' also stands for a missing field)
RawSids == { <<>>, <<"a">>, <<"x", " ">> }

\* the sessionId field of the frames that must name their session (answer and
\* feedback frames of the "machine" relay)
RoutedSids == RawSids \ { <<>> }

\* the sessionId and name fields of leave frames: both missing, as the
\* clients send them, or both given
LeaveFields == { << <<>>, <<>> >> } \cup { <<p, <<" ", "n">> >> : p \in RoutedSids }

\* outcomes of Math.random().toString(36).slice(2, 8).toUpperCase()
GenTokens == { <<"A">>, <<"X">> }

\* display names as typed by clients
RawNames == { <<>>, <<" ", "n">> }

\* name fields of the join frames each client sends to the machine relay:
\* c3 also has a second display name, so that a session can hold two members
JoinNames(ws) == IF ws = "c3" THEN { <<" ", "n">>, <<"b">> } ELSE RawNames

\* the `to` field of feedback frames
RawTargets == { <<" ", "n">>, <<"n", "-", "2">> }

\* machineId fields as sent by each client (<<>>: the field is missing);
\* c3 runs on c1's machine or hides its machine id
RawMachines(ws) ==
  CASE ws = "c1" -> { <<"m">> }
    [] ws = "c2" -> { <<"k", " ">> }
    [] ws = "c3" -> { <<"m">>, <<>> }

\* code of answer frames
Codes == { "q" }

\* question / answer / feedback texts
Texts == { "", "q" }

\* the `to` and `text` fields of feedback frames: a text for each target, and
\* a frame without text
FeedbackFields == { <<n, "q">> : n \in RawTargets } \cup { << <<" ", "n">>, "" >> }

\* the client that sends frames of unknown type and frames that do not parse
BadSenders == { "c3" }

\* the client whose transport reports errors; it can be host or member
Faulty == { "c2" }

----------------------------------------------------------------------------
(* Text helpers: String.prototype.toUpperCase / trim, number formatting *)

UpperChar(ch) ==
  CASE ch = "a" -> "A"
    [] ch = "x" -> "X"
    [] ch = "n" -> "N"
    [] ch = "m" -> "M"
    [] ch = "k" -> "K"
    [] OTHER    -> ch

toUpperCase(s) == [i \in 1..Len(s) |-> UpperChar(s[i])]

RECURSIVE trimStart(_)
trimStart(s) == IF s # <<>> /\ Head(s) = " " THEN trimStart(Tail(s)) ELSE s

RECURSIVE trimEnd(_)
trimEnd(s) ==
  IF s # <<>> /\ s[Len(s)] = " " THEN trimEnd(SubSeq(s, 1, Len(s) - 1)) ELSE s

trim(s) == trimEnd(trimStart(s))

DigitChar(d) ==
  CASE d = 0 -> "0" [] d = 1 -> "1" [] d = 2 -> "2" [] d = 3 -> "3"
    [] d = 4 -> "4" [] d = 5 -> "5" [] d = 6 -> "6" [] d = 7 -> "7"
    [] d = 8 -> "8" [] d = 9 -> "9"

\* decimal form of a number, as the template literal `${i}` prints it
RECURSIVE numberToString(_)
numberToString(i) ==
  IF i < 10 THEN <<DigitChar(i)>>
  ELSE numberToString(i \div 10) \o <<DigitChar(i % 10)>>

----------------------------------------------------------------------------
(* Records *)

NoUsers == [n \in {} |-> [socket |-> "c1", machineId |-> <<>>]]

\* an outbound event; fields a type does not carry hold their empty value
Ev(type, sid, name, text, users) ==
  [type |-> type, sessionId |-> sid, name |-> name, text |-> text,
   users |-> users]

EvError(message)         == Ev("error", <<>>, <<>>, message, {})
EvCreated(sid)           == Ev("created", sid, <<>>, "", {})
EvJoinedBlank(sid, name, q) == Ev("joined", sid, name, "", {})
EvJoined(sid, name, q)   == Ev("joined", sid, name, q, {})
EvUsers(sid, names)      == Ev("users", sid, <<>>, "", names)
EvUserJoinedNameless(sid, name) == Ev("userJoined", sid, <<>>, "", {})
EvUserJoined(sid, name)  == Ev("userJoined", sid, name, "", {})
EvUserLeft(sid, name)    == Ev("userLeft", sid, name, "", {})
EvQuestion(text)         == Ev("question", <<>>, <<>>, text, {})
EvAnswerReceived(name, code) == Ev("answerReceived", <<>>, name, code, {})
EvFeedback(text)         == Ev("feedback", <<>>, <<>>, text, {})
EvSessionClosed          == Ev("sessionClosed", <<>>, <<>>, "", {})

\* an inbound frame or socket event
Cmd(type, sock, sid, name, text, machineId) ==
  [type |-> type, sock |-> sock, sessionId |-> sid, name |-> name,
   text |-> text, machineId |-> machineId]

Idle == Cmd("idle", "c1", <<>>, <<>>, "", <<>>)

EmptyMeta == [role |-> "none", sid |-> <<>>, name |-> <<>>, machineId |-> <<>>]

\* some enumeration of a finite set (the order is not observable: every
\* use sends the same payload to each element)
RECURSIVE SetToSeq(_)
SetToSeq(S) ==
  IF S = {} THEN <<>>
  ELSE LET x == CHOOSE y \in S : TRUE IN <<x>> \o SetToSeq(S \ {x})

RECURSIVE Concat(_)
Concat(ss) == IF ss = <<>> THEN <<>> ELSE Head(ss) \o Concat(Tail(ss))

----------------------------------------------------------------------------
(* History of the last close command (read by no handler) *)

NoHist == [closed |-> <<>>, bound |-> {}]

\* connection ws was bound by a create or join that registered or found sid
histBind(h, ws, sid) ==
  [closed  |-> IF h.closed = sid THEN <<>> ELSE h.closed,
   bound   |-> IF h.closed = sid THEN {} ELSE h.bound \ {ws}]

\* a close command of its host removed session s, registered as sid
histClose(h, sid, s) ==
  [h EXCEPT !.closed = sid,
            !.bound = {s.host} \cup {s.users[n].socket : n \in DOMAIN s.users}]

\* the close event of socket ws: no further event of ws follows
histGone(h, ws) == [h EXCEPT !.bound = @ \ {ws}]

----------------------------------------------------------------------------
(* Transport: a frame reaches its peer only over an OPEN socket *)

\* send (mvp) / safeSend (machine): JSON over ws.send inside try/catch
send(rs, ws, ev) == IF rs[ws] = "OPEN" THEN << [to |-> ws, ev |-> ev] >> ELSE <<>>

----------------------------------------------------------------------------
(* Snapshot "mvp" (src/server.js lines 1-168) *)

\* setMeta: Object.assign(ws.__meta || {}, patch) -- fields of patch replace,
\* the others stay
setMeta(m, ws, patch) ==
  [m EXCEPT ![ws] = [f \in DOMAIN m[ws] |->
                       IF f \in DOMAIN patch THEN patch[f] ELSE m[ws][f]]]

getMeta(ws) == meta[ws]

\* broadcastSession(sid, payload, exclude) on the registry ss
\* a relay that broadcasts to every open connection, participant or not
broadcastSessionAll(ss, rs, sid, payload, exclude) ==
  IF sid \notin DOMAIN ss THEN <<>>
  ELSE LET all == SetToSeq(Sockets \ {exclude})
       IN  Concat([i \in 1..Len(all) |-> send(rs, all[i], payload)])

broadcastSession(ss, rs, sid, payload, exclude) ==
  IF sid \notin DOMAIN ss THEN <<>>
  ELSE LET s == ss[sid]
           names == SetToSeq(DOMAIN s.users)
       IN  (IF rs[s.host] = "OPEN" /\ s.host # exclude
              THEN send(rs, s.host, payload) ELSE <<>>)
           \o Concat([i \in 1..Len(names) |->
                 LET sock == s.users[names[i]].socket
                 IN  IF rs[sock] = "OPEN" /\ sock # exclude
                       THEN send(rs, sock, payload) ELSE <<>>])

\* a relay that pushes the member list of the registry as it was before the
\* handler changed it
pushUsersListBefore(ss, rs, sid) ==
  IF sid \notin DOMAIN ss THEN <<>>
  ELSE LET before == IF sid \in DOMAIN sessions THEN DOMAIN sessions[sid].users ELSE {}
       IN  broadcastSession(ss, rs, sid, EvUsers(sid, before), "none")

pushUsersList(ss, rs, sid) ==
  IF sid \notin DOMAIN ss THEN <<>>
  ELSE broadcastSession(ss, rs, sid, EvUsers(sid, DOMAIN ss[sid].users), "none")

\* the identifiers createSession may end up with for a proposal
createSessionIds(proposed) ==
  LET sid == trim(toUpperCase(proposed))
  IN  IF sid = <<>> \/ sid \in DOMAIN sessions
        THEN GenTokens \ DOMAIN sessions
        ELSE {sid}

\* let final = name, i = 2; while (s.users.has(final)) final = `${name}-${i++}`
RECURSIVE uniqueNameFrom(_, _, _, _)
uniqueNameFrom(users, name, final, i) ==
  IF final \in DOMAIN users
    THEN uniqueNameFrom(users, name, name \o <<"-">> \o numberToString(i), i + 1)
    ELSE final

\* the requested name handed out as it is, without the loop
uniqueNameAsAsked(users, name) == name

uniqueName(users, name) == uniqueNameFrom(users, name, name, 2)

createSession(ws, proposed) ==
  /\ variant = "mvp"
  /\ cmd = Idle
  /\ readyState[ws] = "OPEN"
  /\ \E sid \in createSessionIds(proposed) :
       LET ss == (sid :> [host |-> ws, ownerMachineId |-> <<>>,
                          users |-> NoUsers, question |-> ""]) @@ sessions
       IN  /\ sessions' = ss
           /\ lastPrompt' = (sid :> "") @@ lastPrompt
           /\ hist' = histBind(hist, ws, sid)
           /\ meta' = setMeta(meta, ws, [role |-> "host", sid |-> sid])
           /\ out' = send(readyState, ws, EvCreated(sid))
                     \o pushUsersList(ss, readyState, sid)
  /\ binds < MaxBinds
  /\ binds' = binds + 1
  /\ cmd' = Cmd("create", ws, proposed, <<>>, "", <<>>)
  /\ UNCHANGED <<variant, db, isAlive, probe, readyState>>

joinSession(ws, rawSid, rawName) ==
  /\ variant = "mvp"
  /\ cmd = Idle
  /\ readyState[ws] = "OPEN"
  /\ LET sid == trim(toUpperCase(rawSid))
         name == trim(rawName)
     IN  IF sid = <<>> \/ name = <<>> \/ sid \notin DOMAIN sessions
           THEN /\ out' = send(readyState, ws, EvError("Invalid session or name"))
                /\ UNCHANGED <<sessions, meta, binds, hist>>
           ELSE LET s == sessions[sid]
                    final == uniqueName(s.users, name)
                    ss == [sessions EXCEPT ![sid].users =
                             (final :> [socket |-> ws, machineId |-> <<>>]) @@ @]
                IN  /\ binds < MaxBinds
                    /\ binds' = binds + 1
                    /\ sessions' = ss
                    /\ hist' = histBind(hist, ws, sid)
                    /\ meta' = setMeta(meta, ws, [role |-> "student", sid |-> sid,
                                                  name |-> final])
                    /\ out' = send(readyState, ws, EvJoined(sid, final, s.question))
                              \o broadcastSession(ss, readyState, sid,
                                                  EvUserJoined(sid, final), "none")
                              \o pushUsersList(ss, readyState, sid)
  /\ cmd' = Cmd("join", ws, rawSid, rawName, "", <<>>)
  /\ UNCHANGED <<lastPrompt, variant, db, isAlive, probe, readyState>>

setQuestion(ws, text) ==
  /\ variant = "mvp"
  /\ cmd = Idle
  /\ readyState[ws] = "OPEN"
  /\ LET m == getMeta(ws)
     IN  IF m.role # "host" \/ m.sid = <<>>
           THEN /\ out' = send(readyState, ws, EvError("Only host can set question"))
                /\ UNCHANGED <<sessions, lastPrompt>>
           ELSE IF m.sid \notin DOMAIN sessions
             THEN /\ out' = <<>>
                  /\ UNCHANGED <<sessions, lastPrompt>>
             ELSE LET ss == [sessions EXCEPT ![m.sid].question = text]
                  IN  /\ sessions' = ss
                      /\ lastPrompt' = [lastPrompt EXCEPT ![m.sid] = text]
                      /\ out' = broadcastSession(ss, readyState, m.sid,
                                                 EvQuestion(text), "none")
  /\ cmd' = Cmd("setQuestion", ws, <<>>, <<>>, text, <<>>)
  /\ UNCHANGED <<hist, binds, variant, db, isAlive, probe, meta, readyState>>

handleAnswer(ws, code) ==
  /\ variant = "mvp"
  /\ cmd = Idle
  /\ readyState[ws] = "OPEN"
  /\ LET m == getMeta(ws)
     IN  IF m.role # "student" \/ m.sid = <<>> \/ m.name = <<>>
           THEN out' = <<>>
           ELSE IF m.sid \notin DOMAIN sessions
             THEN out' = <<>>
             ELSE out' = send(readyState, sessions[m.sid].host,
                              EvAnswerReceived(m.name, code))
  /\ cmd' = Cmd("answer", ws, <<>>, <<>>, code, <<>>)
  /\ UNCHANGED <<hist, lastPrompt, binds, variant, db, isAlive, probe, sessions, meta, readyState>>

sendFeedback(ws, to, text) ==
  /\ variant = "mvp"
  /\ cmd = Idle
  /\ readyState[ws] = "OPEN"
  /\ LET m == getMeta(ws)
     IN  IF m.role # "host" \/ m.sid = <<>>
           THEN out' = send(readyState, ws, EvError("Only host can send feedback"))
           ELSE IF m.sid \notin DOMAIN sessions
             THEN out' = <<>>
             ELSE LET s == sessions[m.sid]
                      target == trim(to)
                  IN  IF target \notin DOMAIN s.users
                        THEN out' = send(readyState, ws, EvError("Student not found"))
                        ELSE out' = send(readyState, s.users[target].socket,
                                         EvFeedback(text))
  /\ cmd' = Cmd("feedback", ws, <<>>, to, text, <<>>)
  /\ UNCHANGED <<hist, lastPrompt, binds, variant, db, isAlive, probe, sessions, meta, readyState>>

\* for (const sock of s.users.values()) setMeta(sock, { sid: undefined })
clearMemberSids(m, s) ==
  [c \in Sockets |->
     IF \E n \in DOMAIN s.users : s.users[n].socket = c
       THEN [m[c] EXCEPT !.sid = <<>>] ELSE m[c]]

closeSession(ws) ==
  /\ variant = "mvp"
  /\ cmd = Idle
  /\ readyState[ws] = "OPEN"
  /\ LET m == getMeta(ws)
     IN  IF m.role # "host" \/ m.sid = <<>> \/ m.sid \notin DOMAIN sessions
           THEN /\ out' = <<>>
                /\ UNCHANGED <<sessions, meta, lastPrompt, hist>>
           ELSE LET s == sessions[m.sid]
                IN  /\ out' = broadcastSession(sessions, readyState, m.sid,
                                               EvSessionClosed, "none")
                    /\ sessions' = [x \in DOMAIN sessions \ {m.sid} |-> sessions[x]]
                    /\ lastPrompt' = [x \in DOMAIN sessions \ {m.sid} |-> lastPrompt[x]]
                    /\ meta' = setMeta(clearMemberSids(meta, s), ws, [sid |-> <<>>])
                    /\ hist' = IF s.host = ws THEN histClose(hist, m.sid, s) ELSE hist
  /\ cmd' = Cmd("close", ws, <<>>, <<>>, "", <<>>)
  /\ UNCHANGED <<binds, variant, db, isAlive, probe, readyState>>

\* cleanupSocket(ws) with the sockets' ready states rs: the registry, the
\* metadata and the events it leaves behind
cleanupSocket(rs, ws) ==
  LET m == getMeta(ws)
      same == [ss |-> sessions, mm |-> meta, oo |-> <<>>]
  IN  IF m.sid = <<>> \/ m.sid \notin DOMAIN sessions THEN same
      ELSE LET s == sessions[m.sid]
           IN  IF m.role = "host"
                 THEN [ss |-> [x \in DOMAIN sessions \ {m.sid} |-> sessions[x]],
                       mm |-> clearMemberSids(meta, s),
                       oo |-> broadcastSession(sessions, rs, m.sid,
                                               EvSessionClosed, ws)]
               ELSE IF m.role = "student" /\ m.name # <<>>
                 THEN LET ss == IF m.name \in DOMAIN s.users
                                   /\ s.users[m.name].socket = ws
                                  THEN [sessions EXCEPT ![m.sid].users =
                                          [n \in DOMAIN @ \ {m.name} |-> @[n]]]
                                  ELSE sessions
                      IN  [ss |-> ss,
                           mm |-> meta,
                           oo |-> broadcastSession(ss, rs, m.sid,
                                     EvUserLeft(m.sid, m.name), ws)
                                  \o pushUsersList(ss, rs, m.sid)]
               ELSE same

\* case 'leave': cleanupSocket(ws)
leave(ws) ==
  /\ variant = "mvp"
  /\ cmd = Idle
  /\ readyState[ws] = "OPEN"
  /\ LET r == cleanupSocket(readyState, ws)
     IN  /\ sessions' = r.ss
         /\ lastPrompt' = [x \in DOMAIN r.ss |-> lastPrompt[x]]
         /\ meta' = r.mm
         /\ out' = r.oo
  /\ cmd' = Cmd("leave", ws, <<>>, <<>>, "", <<>>)
  /\ UNCHANGED <<hist, binds, variant, db, isAlive, probe, readyState>>

\* default: send(ws, { type: 'error', message: 'Unknown type' })
unknownType(ws) ==
  /\ variant = "mvp"
  /\ cmd = Idle
  /\ readyState[ws] = "OPEN"
  /\ out' = send(readyState, ws, EvError("Unknown type"))
  /\ cmd' = Cmd("unknown", ws, <<>>, <<>>, "", <<>>)
  /\ UNCHANGED <<hist, lastPrompt, binds, variant, db, isAlive, probe, sessions, meta, readyState>>

\* safeParse fails, or the frame decodes to null (!msg), or msg.type is not a
\* string
badMessage(ws) ==
  /\ variant = "mvp"
  /\ cmd = Idle
  /\ readyState[ws] = "OPEN"
  /\ out' = send(readyState, ws, EvError("Bad message"))
  /\ cmd' = Cmd("bad", ws, <<>>, <<>>, "", <<>>)
  /\ UNCHANGED <<hist, lastPrompt, binds, variant, db, isAlive, probe, sessions, meta, readyState>>

\* ws.on('error', () => cleanupSocket(ws)): the transport failed, the socket
\* is CLOSING and its close event follows
onError(ws) ==
  /\ variant = "mvp"
  /\ cmd = Idle
  /\ readyState[ws] = "OPEN"
  /\ LET rs == [readyState EXCEPT ![ws] = "CLOSING"]
         r == cleanupSocket(rs, ws)
     IN  /\ readyState' = rs
         /\ sessions' = r.ss
         /\ lastPrompt' = [x \in DOMAIN r.ss |-> lastPrompt[x]]
         /\ meta' = r.mm
         /\ out' = r.oo
  /\ cmd' = Cmd("socketError", ws, <<>>, <<>>, "", <<>>)
  /\ UNCHANGED <<hist, binds, variant, db, isAlive, probe>>

\* ws.on('close', () => cleanupSocket(ws)): the socket is CLOSED by then.
\* No handler reads the metadata of a socket after its close event, so the
\* model forgets it (the sessions keep whatever reference they hold).
onClose(ws) ==
  /\ variant = "mvp"
  /\ cmd = Idle
  /\ readyState[ws] \in {"OPEN", "CLOSING"}
  /\ LET rs == [readyState EXCEPT ![ws] = "CLOSED"]
         r == cleanupSocket(rs, ws)
     IN  /\ readyState' = rs
         /\ sessions' = r.ss
         /\ lastPrompt' = [x \in DOMAIN r.ss |-> lastPrompt[x]]
         /\ meta' = [r.mm EXCEPT ![ws] = EmptyMeta]
         /\ out' = r.oo
  /\ hist' = histGone(hist, ws)
  /\ isAlive' = [isAlive EXCEPT ![ws] = TRUE]
  /\ probe' = [probe EXCEPT ![ws] = "none"]
  /\ cmd' = Cmd("socketClose", ws, <<>>, <<>>, "", <<>>)
  /\ UNCHANGED <<binds, variant, db>>

----------------------------------------------------------------------------
(* Snapshot "machine" (src/server.js lines 439-676).  The session's `owner` *)
(* is the `host` field of the session record.                               *)

\* broadcast(session, payload): every member socket, then the owner
\* a relay that broadcasts to the members and forgets the owner
broadcastMembers(rs, s, payload) ==
  LET names == SetToSeq(DOMAIN s.users)
  IN  Concat([i \in 1..Len(names) |-> send(rs, s.users[names[i]].socket, payload)])

\* a relay whose loop is not guarded: the first send that fails ends the
\* broadcast
broadcastUnguarded(rs, s, payload) ==
  LET names == SetToSeq(DOMAIN s.users)
  IN  IF \E n \in DOMAIN s.users : rs[s.users[n].socket] # "OPEN" THEN <<>>
      ELSE Concat([i \in 1..Len(names) |-> send(rs, s.users[names[i]].socket, payload)])
           \o send(rs, s.host, payload)

broadcast(rs, s, payload) ==
  LET names == SetToSeq(DOMAIN s.users)
  IN  Concat([i \in 1..Len(names) |-> send(rs, s.users[names[i]].socket, payload)])
      \o send(rs, s.host, payload)

getOrCreateSession(sid, ownerSocket, ownerMachineId) ==
  IF sid \notin DOMAIN sessions
    THEN (sid :> [host |-> ownerSocket, ownerMachineId |-> ownerMachineId,
                  users |-> NoUsers, question |-> ""]) @@ sessions
    ELSE sessions

\* a relay that sends member lists without the names
usersPayloadNone(s) == {}

usersPayload(s) == DOMAIN s.users

\* [...sessions.values()].find(x => x.owner === socket): the identifiers of
\* the sessions the socket owns
ownedBy(socket) == {sid \in DOMAIN sessions : sessions[sid].host = socket}

\* s.users.forEach(({ socket: ws }) => ws.close()): open member sockets
\* start their closing handshake
closeMembers(rs, s) ==
  [c \in Sockets |->
     IF rs[c] = "OPEN" /\ \E n \in DOMAIN s.users : s.users[n].socket = c
       THEN "CLOSING" ELSE rs[c]]

HandleCreate(socket, rawSid, rawMachine) ==
  /\ variant = "machine"
  /\ cmd = Idle
  /\ readyState[socket] = "OPEN"
  /\ LET sid == toUpperCase(rawSid)
         machineId == trim(rawMachine)
         alreadyOwnerBySocket == \E x \in DOMAIN sessions : sessions[x].host = socket
         alreadyOwnerByMachine ==
           \E x \in DOMAIN sessions : sessions[x].ownerMachineId = machineId
     IN  IF sid = <<>>
           THEN /\ out' = send(readyState, socket, EvError("Bad session id"))
                /\ UNCHANGED <<sessions, meta, binds, lastPrompt, hist, isAlive>>
           ELSE IF alreadyOwnerBySocket \/ alreadyOwnerByMachine
             THEN /\ out' = send(readyState, socket,
                                 EvError("You already own a session on this machine"))
                  /\ UNCHANGED <<sessions, meta, binds, lastPrompt, hist, isAlive>>
             ELSE LET ss == getOrCreateSession(sid, socket, machineId)
                      s == ss[sid]
                  IN  /\ binds < MaxBinds
                      /\ binds' = binds + 1
                      /\ sessions' = ss
                      /\ hist' = histBind(hist, socket, sid)
                      /\ lastPrompt' = IF sid \in DOMAIN sessions THEN lastPrompt
                                       ELSE (sid :> "") @@ lastPrompt
                      /\ meta' = [meta EXCEPT ![socket] =
                                    [role |-> "host", sid |-> sid, name |-> <<>>,
                                     machineId |-> machineId]]
                      /\ isAlive' = [isAlive EXCEPT ![socket] = TRUE]
                      /\ out' = send(readyState, socket, EvCreated(sid))
                                \o broadcast(readyState, s, EvUsers(sid, usersPayload(s)))
                                \o (IF s.question # ""
                                      THEN broadcast(readyState, s, EvQuestion(s.question))
                                      ELSE <<>>)
  /\ cmd' = Cmd("create", socket, rawSid, <<>>, "", rawMachine)
  /\ UNCHANGED <<variant, db, probe, readyState>>

HandleJoin(socket, rawSid, rawName, rawMachine) ==
  /\ variant = "machine"
  /\ cmd = Idle
  /\ readyState[socket] = "OPEN"
  /\ LET sid == toUpperCase(rawSid)
         name == trim(rawName)
         machineId == trim(rawMachine)
     IN  IF sid \notin DOMAIN sessions
           THEN /\ out' = send(readyState, socket, EvError("Invalid session"))
                /\ UNCHANGED <<sessions, meta, binds, hist, isAlive>>
         ELSE IF name = <<>>
           THEN /\ out' = send(readyState, socket, EvError("Name required"))
                /\ UNCHANGED <<sessions, meta, binds, hist, isAlive>>
         ELSE IF name \in DOMAIN sessions[sid].users
           THEN /\ out' = send(readyState, socket, EvError("Name already used"))
                /\ UNCHANGED <<sessions, meta, binds, hist, isAlive>>
         ELSE IF \/ \E n \in DOMAIN sessions[sid].users :
                       sessions[sid].users[n].machineId = machineId
                 \/ sessions[sid].ownerMachineId = machineId
           THEN /\ out' = send(readyState, socket,
                     EvError("This machine already participates in this session"))
                /\ UNCHANGED <<sessions, meta, binds, hist, isAlive>>
         ELSE LET ss == [sessions EXCEPT ![sid].users =
                           (name :> [socket |-> socket, machineId |-> machineId]) @@ @]
                  s == ss[sid]
              IN  /\ binds < MaxBinds
                  /\ binds' = binds + 1
                  /\ sessions' = ss
                  /\ hist' = histBind(hist, socket, sid)
                  /\ meta' = [meta EXCEPT ![socket] =
                                [role |-> "student", sid |-> sid, name |-> name,
                                 machineId |-> machineId]]
                  /\ isAlive' = [isAlive EXCEPT ![socket] = TRUE]
                  /\ out' = send(readyState, socket, EvJoined(sid, name, s.question))
                            \o broadcast(readyState, s, EvUsers(sid, usersPayload(s)))
                            \o broadcast(readyState, s, EvUserJoined(sid, name))
  /\ cmd' = Cmd("join", socket, rawSid, rawName, "", rawMachine)
  /\ UNCHANGED <<lastPrompt, variant, db, probe, readyState>>

HandleSetQuestion(socket, text) ==
  /\ variant = "machine"
  /\ cmd = Idle
  /\ readyState[socket] = "OPEN"
  /\ IF ownedBy(socket) = {}
       THEN /\ out' = send(readyState, socket, EvError("Not a host"))
            /\ UNCHANGED <<sessions, lastPrompt>>
       ELSE \E sid \in ownedBy(socket) :
              LET ss == [sessions EXCEPT ![sid].question = text]
              IN  /\ sessions' = ss
                  /\ lastPrompt' = [lastPrompt EXCEPT ![sid] = text]
                  /\ out' = broadcast(readyState, ss[sid], EvQuestion(text))
  /\ cmd' = Cmd("setQuestion", socket, <<>>, <<>>, text, <<>>)
  /\ UNCHANGED <<hist, variant, db, isAlive, probe, meta, readyState, binds>>

\* db.prepare('INSERT INTO answers ...').run(sid, name, code), then
\* safeSend(s.owner, ...): the write is synchronous and unguarded, so a write
\* that throws ends the handler, and the process, before the send
insertAnswer(sent) ==
  IF db = "failing"
    THEN out' = <<>> /\ db' = "threw"
    ELSE out' = sent /\ UNCHANGED db

HandleAnswer(socket, rawSid, rawName, code) ==
  /\ variant = "machine"
  /\ cmd = Idle
  /\ readyState[socket] = "OPEN"
  /\ LET sid == toUpperCase(rawSid)
         name == trim(rawName)
     IN  IF sid \notin DOMAIN sessions
           THEN out' = <<>> /\ UNCHANGED db
           ELSE insertAnswer(send(readyState, sessions[sid].host,
                                  EvAnswerReceived(name, code)))
  /\ cmd' = Cmd("answer", socket, rawSid, rawName, code, <<>>)
  /\ UNCHANGED <<hist, lastPrompt, variant, isAlive, probe, sessions, meta, readyState, binds>>

\* a missing sessionId / name field (<<>>) falls back to the socket's metadata
HandleLeave(socket, rawSid, rawName) ==
  /\ variant = "machine"
  /\ cmd = Idle
  /\ readyState[socket] = "OPEN"
  /\ LET m == meta[socket]
         sid == toUpperCase(IF rawSid # <<>> THEN rawSid ELSE m.sid)
         name == trim(IF rawName # <<>> THEN rawName ELSE m.name)
     IN  IF sid \in DOMAIN sessions /\ name # <<>>
            /\ name \in DOMAIN sessions[sid].users
           THEN LET ss == [sessions EXCEPT ![sid].users =
                             [n \in DOMAIN @ \ {name} |-> @[n]]]
                IN  /\ sessions' = ss
                    /\ out' = broadcast(readyState, ss[sid], EvUserLeft(sid, name))
                              \o broadcast(readyState, ss[sid],
                                           EvUsers(sid, usersPayload(ss[sid])))
           ELSE /\ out' = <<>>
                /\ UNCHANGED sessions
  /\ meta' = [meta EXCEPT ![socket] = EmptyMeta]
  /\ isAlive' = [isAlive EXCEPT ![socket] = TRUE]
  /\ cmd' = Cmd("leave", socket, rawSid, rawName, "", <<>>)
  /\ UNCHANGED <<hist, lastPrompt, variant, db, probe, readyState, binds>>

HandleClose(socket) ==
  /\ variant = "machine"
  /\ cmd = Idle
  /\ readyState[socket] = "OPEN"
  /\ IF ownedBy(socket) = {}
       THEN /\ out' = <<>>
            /\ UNCHANGED <<sessions, meta, readyState, lastPrompt, hist, isAlive>>
       ELSE \E sid \in ownedBy(socket) :
              /\ out' = broadcast(readyState, sessions[sid], EvSessionClosed)
              /\ readyState' = closeMembers(readyState, sessions[sid])
              /\ sessions' = [x \in DOMAIN sessions \ {sid} |-> sessions[x]]
              /\ lastPrompt' = [x \in DOMAIN sessions \ {sid} |-> lastPrompt[x]]
              /\ hist' = histClose(hist, sid, sessions[sid])
              /\ meta' = [meta EXCEPT ![socket] = EmptyMeta]
              /\ isAlive' = [isAlive EXCEPT ![socket] = TRUE]
  /\ cmd' = Cmd("close", socket, <<>>, <<>>, "", <<>>)
  /\ UNCHANGED <<variant, db, probe, binds>>

HandleFeedback(socket, rawSid, rawTo, text) ==
  /\ variant = "machine"
  /\ cmd = Idle
  /\ readyState[socket] = "OPEN"
  /\ LET sid == toUpperCase(rawSid)
         to == trim(rawTo)
     IN  IF sid \notin DOMAIN sessions \/ to = <<>> \/ text = ""
           THEN out' = <<>>
           ELSE IF to \in DOMAIN sessions[sid].users
             THEN out' = send(readyState, sessions[sid].users[to].socket,
                              EvFeedback(text))
             ELSE out' = <<>>
  /\ cmd' = Cmd("feedback", socket, rawSid, rawTo, text, <<>>)
  /\ UNCHANGED <<hist, lastPrompt, variant, db, isAlive, probe, sessions, meta, readyState, binds>>

\* a frame whose type no branch handles, or one JSON.parse rejects: nothing
HandleOther(socket, type) ==
  /\ variant = "machine"
  /\ cmd = Idle
  /\ readyState[socket] = "OPEN"
  /\ out' = <<>>
  /\ cmd' = Cmd(type, socket, <<>>, <<>>, "", <<>>)
  /\ UNCHANGED <<hist, lastPrompt, variant, db, isAlive, probe, sessions, meta, readyState, binds>>

\* a frame that decodes to null (the text `null`): JSON.parse returns null
\* (line 523) and the first test of the chain reads msg.type (line 526),
\* which throws a TypeError that nothing catches: the process ends, the
\* handler never returns and no other callback runs
HandleNull(socket) ==
  /\ variant = "machine"
  /\ cmd = Idle
  /\ readyState[socket] = "OPEN"
  /\ out' = <<>>
  /\ cmd' = Cmd("null", socket, <<>>, <<>>, "", <<>>)
  /\ UNCHANGED <<hist, lastPrompt, variant, db, isAlive, probe, sessions, meta, readyState, binds>>

\* socket.on('close'): the socket is CLOSED by then; afterwards nothing reads
\* its metadata (socketMeta is a WeakMap), so the model forgets it
OnSocketClose(socket) ==
  /\ variant = "machine"
  /\ cmd = Idle
  /\ readyState[socket] \in {"OPEN", "CLOSING"}
  /\ LET m == meta[socket]
         rs == [readyState EXCEPT ![socket] = "CLOSED"]
     IN  IF m.sid = <<>> \/ m.sid \notin DOMAIN sessions
           THEN /\ out' = <<>>
                /\ readyState' = rs
                /\ UNCHANGED <<sessions, lastPrompt>>
         ELSE IF m.role = "host"
           THEN /\ out' = broadcast(rs, sessions[m.sid], EvSessionClosed)
                /\ readyState' = closeMembers(rs, sessions[m.sid])
                /\ sessions' = [x \in DOMAIN sessions \ {m.sid} |-> sessions[x]]
                /\ lastPrompt' = [x \in DOMAIN sessions \ {m.sid} |-> lastPrompt[x]]
         ELSE IF m.role = "student" /\ m.name # <<>>
                 /\ m.name \in DOMAIN sessions[m.sid].users
           THEN LET ss == [sessions EXCEPT ![m.sid].users =
                             [n \in DOMAIN @ \ {m.name} |-> @[n]]]
                IN  /\ sessions' = ss
                    /\ readyState' = rs
                    /\ UNCHANGED lastPrompt
                    /\ out' = broadcast(rs, ss[m.sid], EvUserLeft(m.sid, m.name))
                              \o broadcast(rs, ss[m.sid],
                                           EvUsers(m.sid, usersPayload(ss[m.sid])))
         ELSE /\ out' = <<>>
              /\ readyState' = rs
              /\ UNCHANGED <<sessions, lastPrompt>>
  /\ meta' = [meta EXCEPT ![socket] = EmptyMeta]
  /\ hist' = histGone(hist, socket)
  /\ isAlive' = [isAlive EXCEPT ![socket] = TRUE]
  /\ probe' = [probe EXCEPT ![socket] = "none"]
  /\ cmd' = Cmd("socketClose", socket, <<>>, <<>>, "", <<>>)
  /\ UNCHANGED <<variant, db, binds>>

----------------------------------------------------------------------------
Init ==
  /\ variant \in Variants
  /\ sessions = [s \in {} |-> 0]
  /\ meta = [c \in Sockets |-> EmptyMeta]
  /\ readyState = [c \in Sockets |-> "NEW"]
  /\ binds = 0
  /\ lastPrompt = [s \in {} |-> ""]
  /\ hist = NoHist
  /\ isAlive = [c \in Sockets |-> TRUE]
  /\ probe = [c \in Sockets |-> "none"]
  /\ db = "ok"
  /\ cmd = Idle
  /\ out = <<>>

\* sockets are interchangeable: they connect in the order c1, c2, c3
ConnectsNext(ws) ==
  \A c \in Sockets :
    (c = "c1" /\ ws # "c1") \/ (c = "c2" /\ ws = "c3") => readyState[c] # "NEW"

\* wss.on('connection')
Connect(ws) ==
  /\ cmd = Idle
  /\ readyState[ws] = "NEW"
  /\ ConnectsNext(ws)
  /\ readyState' = [readyState EXCEPT ![ws] = "OPEN"]
  /\ meta' = [meta EXCEPT ![ws] = EmptyMeta]
  /\ isAlive' = [isAlive EXCEPT ![ws] = TRUE]
  /\ cmd' = Cmd("connection", ws, <<>>, <<>>, "", <<>>)
  /\ out' = <<>>
  /\ UNCHANGED <<hist, lastPrompt, binds, variant, db, probe, sessions>>

\* an exception has left the handler of the last frame uncaught
uncaught == cmd.type = "null" \/ db = "threw"

\* the handler returns; its frames are on the wire
Return ==
  /\ cmd # Idle
  /\ ~uncaught
  /\ cmd' = Idle
  /\ out' = <<>>
  /\ UNCHANGED <<hist, lastPrompt, variant, db, isAlive, probe, sessions, meta, readyState, binds>>

Next ==
  \/ Return
  \/ \E ws \in Sockets : Connect(ws)
  \/ \E ws \in Creators, p \in RawSids : createSession(ws, p)
  \/ \E ws \in Joiners, p \in RawSids, n \in RawNames : joinSession(ws, p, n)
  \/ \E ws \in Sockets, t \in Texts : setQuestion(ws, t)
  \/ \E ws \in Sockets, t \in Codes : handleAnswer(ws, t)
  \/ \E ws \in Creators, f \in FeedbackFields : sendFeedback(ws, f[1], f[2])
  \/ \E ws \in Sockets : closeSession(ws)
  \/ \E ws \in Sockets : leave(ws)
  \/ \E ws \in BadSenders : unknownType(ws)
  \/ \E ws \in BadSenders : badMessage(ws)
  \/ \E ws \in Faulty : onError(ws)
  \/ \E ws \in Sockets : onClose(ws)
  \/ \E ws \in Creators, p \in RawSids : \E k \in RawMachines(ws) :
       HandleCreate(ws, p, k)
  \/ \E ws \in Joiners, p \in RawSids : \E n \in JoinNames(ws), k \in RawMachines(ws) :
       HandleJoin(ws, p, n, k)
  \/ \E ws \in Sockets, t \in Texts : HandleSetQuestion(ws, t)
  \/ \E ws \in Sockets, p \in RoutedSids, n \in RawNames, t \in Codes :
       HandleAnswer(ws, p, n, t)
  \/ \E ws \in Sockets, f \in LeaveFields : HandleLeave(ws, f[1], f[2])
  \/ \E ws \in Sockets : HandleClose(ws)
  \/ \E ws \in Creators, p \in RoutedSids, f \in FeedbackFields :
       HandleFeedback(ws, p, f[1], f[2])
  \/ \E ws \in BadSenders, ty \in {"unknown", "bad"} : HandleOther(ws, ty)
  \/ \E ws \in Sockets : OnSocketClose(ws)

Spec == Init /\ [][Next]_vars

----------------------------------------------------------------------------
(* The liveness monitor: the setInterval callback (lines 160-166 and        *)
(* 665-674) and the pong handler (lines 138 and 516-519).                   *)

\* create / join commands accepted in a run of the relay with its monitor
MonitorBinds == 2

\* the connections of such a run
MonitorSockets == {"c1", "c2"}

EvPing == Ev("ping", <<>>, <<>>, "", {})

\* wss.clients: the sockets whose close event has not been emitted yet
clients == {c \in Sockets : readyState[c] \in {"OPEN", "CLOSING"}}

\* ws.terminate(): the socket is destroyed; its close event follows
terminate(rs, dead) == [c \in Sockets |-> IF c \in dead THEN "CLOSING" ELSE rs[c]]

\* a monitor that terminates every client it visits
intervalDead == clients

\* the clients the callback finds with isAlive === false
intervalFound == {c \in clients : ~isAlive[c]}

\* what a ping does to the record of a socket's probes: "none" no ping yet,
\* "sent" pinged and no pong since, "answered" the pong came, "resent"
\* pinged again after a pong and no pong since
pinged(p) == IF p \in {"none", "sent"} THEN "sent" ELSE "resent"

\* the interval callback, one pass over wss.clients.  mvp returns after
\* terminate(); machine goes on to clear the flag and to ping the destroyed
\* socket, which sends nothing
interval ==
  /\ cmd = Idle
  /\ LET dead == intervalFound
         rs == terminate(readyState, dead)
         visited == IF variant = "mvp" THEN clients \ dead ELSE clients
         probed == {c \in visited : rs[c] = "OPEN"}
     IN  /\ readyState' = rs
         /\ isAlive' = [c \in Sockets |-> IF c \in visited THEN FALSE ELSE isAlive[c]]
         /\ probe' = [c \in Sockets |->
                        IF c \in probed THEN pinged(probe[c]) ELSE probe[c]]
         /\ out' = Concat([i \in 1..Cardinality(probed) |->
                             send(rs, SetToSeq(probed)[i], EvPing)])
  /\ cmd' = Cmd("interval", "c1", <<>>, <<>>, "", <<>>)
  /\ UNCHANGED <<variant, db, sessions, meta, binds, lastPrompt, hist>>

\* ws.on('pong'): the answer to an outstanding ping
heartbeat(ws) ==
  /\ cmd = Idle
  /\ readyState[ws] = "OPEN"
  /\ probe[ws] \in {"sent", "resent"}
  /\ isAlive' = [isAlive EXCEPT ![ws] = TRUE]
  /\ probe' = [probe EXCEPT ![ws] = "answered"]
  /\ cmd' = Cmd("pong", ws, <<>>, <<>>, "", <<>>)
  /\ out' = <<>>
  /\ UNCHANGED <<variant, db, sessions, meta, readyState, binds, lastPrompt, hist>>

\* collab.db stops taking writes (disk full, file locked or removed): every
\* later run() throws
DbFails ==
  /\ variant = "machine"
  /\ cmd = Idle
  /\ db = "ok"
  /\ db' = "failing"
  /\ UNCHANGED <<variant, sessions, meta, readyState, binds, lastPrompt, hist,
                 isAlive, probe, cmd, out>>

\* the relay with its monitor running
NextMonitor ==
  \/ Return
  \/ interval
  \/ \E ws \in Sockets : heartbeat(ws)
  \/ \E ws \in MonitorSockets : Connect(ws)
  \/ \E ws \in Creators, p \in RawSids :
       createSession(ws, p) /\ binds' <= MonitorBinds
  \/ \E ws \in Joiners, p \in RawSids, n \in RawNames :
       joinSession(ws, p, n) /\ binds' <= MonitorBinds
  \/ \E ws \in Sockets, t \in Texts : setQuestion(ws, t)
  \/ \E ws \in Sockets, t \in Codes : handleAnswer(ws, t)
  \/ \E ws \in Creators, f \in FeedbackFields : sendFeedback(ws, f[1], f[2])
  \/ \E ws \in Sockets : closeSession(ws)
  \/ \E ws \in Sockets : leave(ws)
  \/ \E ws \in Joiners \cap MonitorSockets : unknownType(ws)
  \/ \E ws \in Joiners \cap MonitorSockets : badMessage(ws)
  \/ \E ws \in Faulty : onError(ws)
  \/ \E ws \in Sockets : onClose(ws)
  \/ \E ws \in Creators, p \in RawSids : \E k \in RawMachines(ws) :
       HandleCreate(ws, p, k) /\ binds' <= MonitorBinds
  \/ \E ws \in Joiners, p \in RawSids : \E n \in JoinNames(ws), k \in RawMachines(ws) :
       HandleJoin(ws, p, n, k) /\ binds' <= MonitorBinds
  \/ \E ws \in Sockets, t \in Texts : HandleSetQuestion(ws, t)
  \/ \E ws \in Sockets, p \in RoutedSids, n \in RawNames, t \in Codes :
       HandleAnswer(ws, p, n, t)
  \/ \E ws \in Sockets, f \in LeaveFields : HandleLeave(ws, f[1], f[2])
  \/ \E ws \in Sockets : HandleClose(ws)
  \/ \E ws \in Creators, p \in RoutedSids, f \in FeedbackFields :
       HandleFeedback(ws, p, f[1], f[2])
  \/ \E ws \in Joiners \cap MonitorSockets, ty \in {"unknown", "bad"} :
       HandleOther(ws, ty)
  \/ \E ws \in Joiners \cap MonitorSockets : HandleNull(ws)
  \/ \E ws \in Sockets : OnSocketClose(ws)

SpecMonitor == Init /\ [][NextMonitor]_vars

\* the relay with a database that may stop taking writes
NextPersist == Next \/ DbFails

SpecPersist == Init /\ [][NextPersist]_vars

----------------------------------------------------------------------------
(* Vocabulary of the properties *)

\* the identifier a frame's sessionId field refers to
normalSid(raw) ==
  IF variant = "mvp" THEN trim(toUpperCase(raw)) ELSE toUpperCase(raw)

Members(sid) == sessions[sid].users

\* connections whose metadata still exists
Live == {c \in Sockets : readyState[c] \in {"OPEN", "CLOSING"}}

\* the sessions that list connection c as a member
MemberSessions(c) ==
  {sid \in DOMAIN sessions : \E n \in DOMAIN Members(sid) : Members(sid)[n].socket = c}

HostedBy(c) == {sid \in DOMAIN sessions : sessions[sid].host = c}

Suffixed(name, k) == name \o <<"-">> \o numberToString(k)

\* the events of type ty among the deliveries of the last handler
Delivered(ty) == {i \in DOMAIN out : out[i].ev.type = ty}

----------------------------------------------------------------------------
(* C1: a membership entry never passes to another connection while it     *)
(* exists, and the name a join hands out (the name of its joined event)   *)
(* was held by no member of that session before the join and belongs to   *)
(* the joiner afterwards: names of current members stay pairwise distinct *)
(* and no join displaces a member.                                        *)
C1_JoinStep ==
  /\ \A sid \in DOMAIN sessions \cap DOMAIN sessions' :
       \A n \in DOMAIN sessions[sid].users \cap DOMAIN sessions'[sid].users :
         sessions'[sid].users[n].socket = sessions[sid].users[n].socket
  /\ cmd'.type = "join" =>
       \A i \in DOMAIN out' :
         out'[i].ev.type = "joined" =>
           LET e == out'[i].ev IN
             /\ out'[i].to = cmd'.sock
             /\ e.sessionId \in DOMAIN sessions
             /\ e.name \notin DOMAIN sessions[e.sessionId].users
             /\ DOMAIN sessions'[e.sessionId].users
                  = DOMAIN sessions[e.sessionId].users \cup {e.name}
             /\ sessions'[e.sessionId].users[e.name].socket = cmd'.sock

C1_NamesDistinct == [][C1_JoinStep]_vars

\* two connections joined one session asking for the same name
C1_Witness ==
  /\ cmd.type = "join"
  /\ \E i \in DOMAIN out : out[i].ev.type = "joined"
  /\ \E sid \in DOMAIN sessions :
       /\ normalSid(cmd.sessionId) = sid
       /\ {trim(cmd.name), Suffixed(trim(cmd.name), 2)} \subseteq DOMAIN Members(sid)
       /\ Members(sid)[trim(cmd.name)].socket # cmd.sock
       /\ Members(sid)[Suffixed(trim(cmd.name), 2)].socket = cmd.sock

(* C2: a join to an existing session whose trimmed name N is held there   *)
(* succeeds with the name N-k, k >= 2 the least number with N-k not held. *)
C2_JoinStep ==
  (/\ cmd'.type = "join"
   /\ normalSid(cmd'.sessionId) \in DOMAIN sessions
   /\ trim(cmd'.name) \in DOMAIN sessions[normalSid(cmd'.sessionId)].users)
  =>
  LET sid == normalSid(cmd'.sessionId)
      N == trim(cmd'.name)
      held == DOMAIN sessions[sid].users
  IN  \E k \in 2..(Cardinality(held) + 2) :
        /\ Suffixed(N, k) \notin held
        /\ \A j \in 2..(k - 1) : Suffixed(N, j) \in held
        /\ out' # <<>>
        /\ out'[1] = [to |-> cmd'.sock,
                      ev |-> EvJoined(sid, Suffixed(N, k), sessions[sid].question)]
        /\ sid \in DOMAIN sessions'
        /\ Suffixed(N, k) \in DOMAIN sessions'[sid].users
        /\ sessions'[sid].users[Suffixed(N, k)].socket = cmd'.sock

C2_CollisionSuffixed == [][C2_JoinStep]_vars

\* the same statement for the snapshots that have joinSession
C2_CollisionSuffixedMvp == [][variant = "mvp" => C2_JoinStep]_vars

(* C3: a create whose proposed identifier is empty or names a registered  *)
(* session answers created with an identifier that was not registered,    *)
(* registers it, and leaves every registered session as it was, with no   *)
(* further connection carrying host metadata for it.                      *)
C3_CreateStep ==
  (/\ cmd'.type = "create"
   /\ \/ normalSid(cmd'.sessionId) = <<>>
      \/ normalSid(cmd'.sessionId) \in DOMAIN sessions)
  =>
  /\ \E sid \in DOMAIN sessions' \ DOMAIN sessions :
       /\ out' # <<>>
       /\ out'[1] = [to |-> cmd'.sock, ev |-> EvCreated(sid)]
       /\ sessions'[sid].host = cmd'.sock
  /\ \A sid \in DOMAIN sessions :
       /\ sid \in DOMAIN sessions'
       /\ sessions'[sid] = sessions[sid]
       /\ \A c \in Sockets :
            (meta'[c].role = "host" /\ meta'[c].sid = sid)
              => (meta[c].role = "host" /\ meta[c].sid = sid)

C3_FreshIdentifier == [][C3_CreateStep]_vars

C3_FreshIdentifierMvp == [][variant = "mvp" => C3_CreateStep]_vars

(* C4: no connection is the host of two sessions and no owner token owns  *)
(* two sessions (the mvp relay records no owner token).                   *)
C4_OneSessionPerOwner ==
  \A s1 \in DOMAIN sessions : \A s2 \in DOMAIN sessions \ {s1} :
    /\ sessions[s1].host # sessions[s2].host
    /\ variant = "machine" => sessions[s1].ownerMachineId # sessions[s2].ownerMachineId

C4_OneSessionPerOwnerMachine == variant = "machine" => C4_OneSessionPerOwner

(* C5: for every session exactly one connection carries the metadata      *)
(* (host, that session), and it is the session's recorded host.           *)
C5_ExactlyOneHost ==
  \A sid \in DOMAIN sessions :
    {c \in Live : meta[c].role = "host" /\ meta[c].sid = sid} = {sessions[sid].host}

(* C6: metadata (member, S, N) of a connection if and only if S is        *)
(* registered and maps N to that connection.                              *)
C6_MembershipAgrees ==
  /\ \A c \in Live :
       (meta[c].role = "student" /\ meta[c].sid # <<>> /\ meta[c].name # <<>>)
         => /\ meta[c].sid \in DOMAIN sessions
            /\ meta[c].name \in DOMAIN Members(meta[c].sid)
            /\ Members(meta[c].sid)[meta[c].name].socket = c
  /\ \A sid \in DOMAIN sessions : \A n \in DOMAIN Members(sid) :
       LET c == Members(sid)[n].socket
       IN  meta[c].role = "student" /\ meta[c].sid = sid /\ meta[c].name = n

(* C7: setQuestion from a connection that hosts no session: one error to  *)
(* the sender, nothing else delivered, no session changed.                *)
C7_SetQuestionStep ==
  (cmd'.type = "setQuestion" /\ HostedBy(cmd'.sock) = {})
  =>
  /\ sessions' = sessions
  /\ Len(out') = 1
  /\ out'[1].to = cmd'.sock
  /\ out'[1].ev.type = "error"

C7_NotHostError == [][C7_SetQuestionStep]_vars

C7_NotHostErrorMachine == [][variant = "machine" => C7_SetQuestionStep]_vars

(* C8: the prompt of a session changes only in a step handling            *)
(* setQuestion from the connection recorded as its host.                  *)
C8_PromptStep ==
  \A sid \in DOMAIN sessions \cap DOMAIN sessions' :
    sessions'[sid].question # sessions[sid].question
      => (cmd'.type = "setQuestion" /\ cmd'.sock = sessions[sid].host)

C8_OnlyHostSetsPrompt == [][C8_PromptStep]_vars

C8_OnlyHostSetsPromptMachine == [][variant = "machine" => C8_PromptStep]_vars

C10_AnswerToOwnHostOnly ==
  (cmd.type = "answer" /\ MemberSessions(cmd.sock) # {})
  =>
  \A i \in DOMAIN out :
    /\ out[i].ev.type = "answerReceived"
    /\ \E sid \in MemberSessions(cmd.sock) : out[i].to = sessions[sid].host

C10_AnswerToOwnHostOnlyMvp == variant = "mvp" => C10_AnswerToOwnHostOnly

----------------------------------------------------------------------------
\* the session a feedback frame addresses: the sender's bound session in the
\* relay that keeps no sessionId in the frame, the frame's sessionId otherwise
FeedbackSession(c) ==
  IF variant = "mvp" THEN meta[c.sock].sid ELSE normalSid(c.sessionId)

(* C11: feedback from the host of the session it addresses, naming T: if T *)
(* is a member, the feedback event goes to T's connection and nothing goes *)
(* to anybody else; if T is no member, the host gets one error and nobody  *)
(* else gets anything.                                                     *)
C11_FeedbackStep ==
  (/\ cmd'.type = "feedback"
   /\ FeedbackSession(cmd') \in DOMAIN sessions
   /\ sessions[FeedbackSession(cmd')].host = cmd'.sock)
  =>
  LET S == FeedbackSession(cmd')
      T == trim(cmd'.name)
  IN  IF T \in DOMAIN Members(S)
        THEN LET target == Members(S)[T].socket
             IN  /\ \A i \in DOMAIN out' :
                      out'[i] = [to |-> target, ev |-> EvFeedback(cmd'.text)]
                 /\ readyState[target] = "OPEN" => Len(out') = 1
        ELSE /\ Len(out') = 1
             /\ out'[1].to = cmd'.sock
             /\ out'[1].ev.type = "error"

C11_FeedbackToTargetOnly == [][C11_FeedbackStep]_vars

\* the same statement for the snapshots that have sendFeedback, for a host
\* whose metadata still carries the host role
C11_FeedbackToTargetOnlyMvp ==
  [][(variant = "mvp" /\ meta[cmd'.sock].role = "host") => C11_FeedbackStep]_vars

\* frame c refers to the session closed last: a join by its identifier, an
\* answer by its identifier (or, where answer frames carry none, from a
\* connection that was bound to it), a setQuestion from a connection that
\* was bound to it
RefersToClosed(c) ==
  /\ hist.closed # <<>>
  /\ \/ c.type = "join" /\ normalSid(c.sessionId) = hist.closed
     \/ c.type = "answer" /\ variant = "machine"
          /\ normalSid(c.sessionId) = hist.closed
     \/ c.type = "answer" /\ variant = "mvp" /\ c.sock \in hist.bound
     \/ c.type = "setQuestion" /\ c.sock \in hist.bound

(* C12: once its host has closed a session and until the identifier is    *)
(* registered again, a join, answer or setQuestion that refers to it gets *)
(* exactly one error, sent to its sender, and changes no session.         *)
C12_ClosedStep ==
  RefersToClosed(cmd') =>
    /\ sessions' = sessions
    /\ Len(out') = 1
    /\ out'[1].to = cmd'.sock
    /\ out'[1].ev.type = "error"

C12_ClosedSessionRejects == [][C12_ClosedStep]_vars

\* the same statement for join and setQuestion alone
C12_ClosedSessionRejectsJoinSetQuestion ==
  [][cmd'.type # "answer" => C12_ClosedStep]_vars

\* the connections in the membership map of session sid
MemberSockets(sid) == {Members(sid)[n].socket : n \in DOMAIN Members(sid)}

\* the deliveries of an event of type ty to connection c, among the sequence o
DeliveredTo(o, c, ty) == {i \in DOMAIN o : o[i].to = c /\ o[i].ev.type = ty}

(* C13: a close command of the host of a session and the disconnection of *)
(* that host (close event, transport error) have the same outcome: the    *)
(* session is removed, every member connection that is open gets          *)
(* sessionClosed exactly once, and no member connection stays open.       *)
(* The host is the connection the session records as host and whose       *)
(* metadata names the session.                                             *)
HostGone(S) ==
  /\ cmd'.type \in {"close", "socketClose", "socketError"}
  /\ S \in HostedBy(cmd'.sock)
  /\ meta[cmd'.sock].role = "host"
  /\ meta[cmd'.sock].sid = S

C13_HostGoneStep ==
  \A S \in DOMAIN sessions :
    HostGone(S) =>
      /\ S \notin DOMAIN sessions'
      /\ \A c \in MemberSockets(S) \ {cmd'.sock} :
           /\ readyState[c] = "OPEN" =>
                Cardinality(DeliveredTo(out', c, "sessionClosed")) = 1
           /\ readyState'[c] # "OPEN"

C13_DisconnectIsClose == [][C13_HostGoneStep]_vars

\* what the relays do keep: the session is removed and every open member
\* connection gets one sessionClosed per membership entry it holds
C13_DisconnectIsCloseNotified ==
  [][\A S \in DOMAIN sessions :
       HostGone(S) =>
         /\ S \notin DOMAIN sessions'
         /\ \A c \in MemberSockets(S) \ {cmd'.sock} :
              readyState[c] = "OPEN" =>
                Cardinality(DeliveredTo(out', c, "sessionClosed")) =
                  Cardinality({n \in DOMAIN Members(S) : Members(S)[n].socket = c})]_vars

(* C14: the disconnection of a member connection (close event after an    *)
(* eviction, transport error) and a leave command of that member act      *)
(* alike on the rest of the session. Whichever of them the step handles,  *)
(* the member's entry and nothing else leaves the registry, and every     *)
(* other open connection is sent, once per place it holds in the session  *)
(* (host, member entry), userLeft with the member's name and the member   *)
(* list without that name, and nothing else.                              *)
Entries(s, d) ==
  (IF s.host = d THEN 1 ELSE 0)
    + Cardinality({n \in DOMAIN s.users : s.users[n].socket = d})

\* connection c is recorded as member N of session S and its metadata says so
BoundMember(c, S, N) ==
  /\ S \in DOMAIN sessions
  /\ N \in DOMAIN Members(S)
  /\ Members(S)[N].socket = c
  /\ meta[c].role = "student"
  /\ meta[c].sid = S
  /\ meta[c].name = N

\* the step handles the disconnection of c, or a leave frame of c that names
\* nothing or names c's own membership
MemberGoes(c, S, N) ==
  /\ BoundMember(c, S, N)
  /\ cmd'.sock = c
  /\ \/ cmd'.type \in {"socketClose", "socketError"}
     \/ /\ cmd'.type = "leave"
        /\ cmd'.sessionId = <<>> \/ toUpperCase(cmd'.sessionId) = S
        /\ cmd'.name = <<>> \/ trim(cmd'.name) = N

MemberGone(c, S, N) ==
  /\ sessions' = [sessions EXCEPT ![S].users = [n \in DOMAIN @ \ {N} |-> @[n]]]
  /\ \A d \in Sockets \ {c} :
       LET k == IF readyState[d] = "OPEN" THEN Entries(sessions'[S], d) ELSE 0
       IN  /\ Cardinality({i \in DOMAIN out' : out'[i].to = d}) = 2 * k
           /\ Cardinality(DeliveredTo(out', d, "userLeft")) = k
           /\ Cardinality(DeliveredTo(out', d, "users")) = k
           /\ \A i \in DeliveredTo(out', d, "userLeft") :
                out'[i].ev.sessionId = S /\ out'[i].ev.name = N
           /\ \A i \in DeliveredTo(out', d, "users") :
                /\ out'[i].ev.sessionId = S
                /\ out'[i].ev.users = DOMAIN Members(S) \ {N}

CleanedUp ==
  \/ cmd.type = "socketError"
  \/ cmd.type = "leave" /\ cmd.sessionId = <<>> /\ cmd.name = <<>>

\* what the disconnect cleanup of lines 642-661 does nothing for
QuietSocketClose(socket) ==
  LET m == meta[socket]
  IN  \/ m.sid = <<>>
      \/ m.sid \notin DOMAIN sessions
      \/ /\ m.role # "host"
         /\ ~ (m.role = "student" /\ m.name # <<>>
                /\ m.name \in DOMAIN sessions[m.sid].users)

SecondCleanupQuiet ==
  IF variant = "mvp"
    THEN LET r == cleanupSocket([readyState EXCEPT ![cmd.sock] = "CLOSED"], cmd.sock)
         IN  r.ss = sessions /\ r.mm = meta /\ r.oo = <<>>
    ELSE QuietSocketClose(cmd.sock)

C15_CleanupIdempotent == CleanedUp => SecondCleanupQuiet

\* the relay of lines 439-676 resets the metadata of a connection that leaves
C15_CleanupIdempotentMachine ==
  (variant = "machine" /\ CleanedUp) => SecondCleanupQuiet

(* C16: handlers of different connections interleave safely. A join that  *)
(* succeeds hands out a name no member of the session held; a join to a   *)
(* session that a close has removed is rejected as not found and changes  *)
(* nothing, while a joiner bound before the close is sent sessionClosed   *)
(* by it; and no open connection is ever bound as member (by its          *)
(* metadata) of a session that is not in the registry.                    *)
JoinOrCloseStep ==
  /\ cmd'.type = "join" =>
       IF normalSid(cmd'.sessionId) \in DOMAIN sessions
         THEN \A i \in DeliveredTo(out', cmd'.sock, "joined") :
                /\ out'[i].ev.sessionId = normalSid(cmd'.sessionId)
                /\ out'[i].ev.name \notin DOMAIN Members(normalSid(cmd'.sessionId))
                /\ cmd'.sock \in {sessions'[normalSid(cmd'.sessionId)].users[n].socket :
                                     n \in DOMAIN sessions'[normalSid(cmd'.sessionId)].users}
         ELSE /\ Len(out') = 1
              /\ out'[1].to = cmd'.sock
              /\ out'[1].ev.type = "error"
              /\ sessions' = sessions
              /\ meta' = meta
  /\ \A S \in DOMAIN sessions :
       (cmd'.type = "close" /\ HostGone(S)) =>
         \A c \in MemberSockets(S) \ {cmd'.sock} :
           readyState[c] = "OPEN" => DeliveredTo(out', c, "sessionClosed") # {}

\* connections that are open and whose metadata binds them as member
BoundAsMember(c) ==
  /\ readyState[c] = "OPEN"
  /\ meta[c].role = "student"
  /\ meta[c].sid # <<>>

NoDanglingMember == \A c \in Sockets : BoundAsMember(c) => meta[c].sid \in DOMAIN sessions

C16_Interleavings == [][JoinOrCloseStep]_vars /\ []NoDanglingMember

\* the part on joins and closes alone
C16_InterleavedJoinClose == [][JoinOrCloseStep]_vars

(* C17: the participants of a session get the host's broadcasts in the    *)
(* order in which the relay handled the commands. Handlers run one at a   *)
(* time and send as they run, so this is a property of each step: the     *)
(* question events of a step all carry one text, the prompt that the      *)
(* latest setQuestion handled for a session of the registry left there,   *)
(* and go to participants of that session only, at most once per place    *)
(* held; a step that sends sessionClosed removes a session and sends no   *)
(* question. A question never follows the sessionClosed of its session    *)
(* and never precedes the question of an earlier command.                 *)
Participants(s) == {s.host} \cup {s.users[n].socket : n \in DOMAIN s.users}

QuestionsOf(S) ==
  \A i \in Delivered("question")' :
    /\ out'[i].ev.text = lastPrompt'[S]
    /\ out'[i].ev.text = sessions'[S].question
    /\ out'[i].to \in Participants(sessions'[S])
    /\ Cardinality(DeliveredTo(out', out'[i].to, "question"))
         <= Entries(sessions'[S], out'[i].to)

BroadcastStep ==
  /\ Delivered("question")' # {} =>
       /\ cmd'.type \in {"setQuestion", "create"}
       /\ cmd'.type = "setQuestion" =>
            \A i \in Delivered("question")' : out'[i].ev.text = cmd'.text
       /\ \E S \in DOMAIN sessions' : QuestionsOf(S)
       /\ Delivered("sessionClosed")' = {}
  /\ Delivered("sessionClosed")' # {} =>
       \E S \in DOMAIN sessions \ DOMAIN sessions' :
         \A i \in Delivered("sessionClosed")' : out'[i].to \in Participants(sessions[S])

RemovedByHost ==
  \A S \in DOMAIN sessions \ DOMAIN sessions' :
    /\ cmd'.type \in {"close", "leave", "socketClose", "socketError"}
    /\ cmd'.sock = sessions[S].host

C18_OnlyHostRemoves == [][RemovedByHost]_vars

\* every removal happens in a close, leave or disconnection step
C18_RemovedByCloseOrCleanup ==
  [][\A S \in DOMAIN sessions \ DOMAIN sessions' :
       cmd'.type \in {"close", "leave", "socketClose", "socketError"}]_vars

(* C19: a connection is bound to at most one session at a time: a create  *)
(* or join frame from a connection that the registry lists as host or as  *)
(* member of a session is answered with one error to its sender and       *)
(* changes no session and no metadata.                                    *)
Bound(c) == HostedBy(c) # {} \/ MemberSessions(c) # {}

Rejected ==
  /\ Len(out') = 1
  /\ out'[1].to = cmd'.sock
  /\ out'[1].ev.type = "error"
  /\ sessions' = sessions
  /\ meta' = meta

C19_BoundCannotRebind ==
  [][(cmd'.type \in {"create", "join"} /\ Bound(cmd'.sock)) => Rejected]_vars

\* the one case the relay of lines 439-676 enforces: an owner cannot create
C19_OwnerCannotCreate ==
  [][(variant = "machine" /\ cmd'.type = "create" /\ HostedBy(cmd'.sock) # {})
       => Rejected]_vars

(* C20: answerReceived(name) reaches the host of a session S only while   *)
(* an answer frame is handled whose sender the registry lists as member   *)
(* `name` of S.                                                           *)
FromMember(i) ==
  \E S \in DOMAIN sessions :
    /\ out[i].to = sessions[S].host
    /\ out[i].ev.name \in DOMAIN Members(S)
    /\ Members(S)[out[i].ev.name].socket = cmd.sock

C20_AnswerOnlyFromMember ==
  \A i \in Delivered("answerReceived") : cmd.type = "answer" /\ FromMember(i)

\* what the relay of lines 1-168 keeps: the answer goes to the host of the
\* session and carries the name that the sender's metadata records
C20_AnswerFromMetadataMvp ==
  variant = "mvp" =>
    \A i \in Delivered("answerReceived") :
      /\ cmd.type = "answer"
      /\ meta[cmd.sock].role = "student"
      /\ meta[cmd.sock].sid \in DOMAIN sessions
      /\ out[i].to = sessions[meta[cmd.sock].sid].host
      /\ out[i].ev.name = meta[cmd.sock].name

(* C21: a feedback event reaches a connection only while a feedback frame *)
(* is handled whose sender is the recorded host of a session that lists   *)
(* the receiver as member; a feedback frame of any other connection       *)
(* delivers nothing to a member.                                          *)
FromHostOf(i) ==
  \E S \in HostedBy(cmd.sock) : out[i].to \in MemberSockets(S)

C21_FeedbackOnlyFromHost ==
  \A i \in Delivered("feedback") : cmd.type = "feedback" /\ FromHostOf(i)

\* what the relay of lines 1-168 keeps: the sender's metadata carries the
\* host role and names the session the receiver is a member of
C21_FeedbackByHostMetadataMvp ==
  variant = "mvp" =>
    \A i \in Delivered("feedback") :
      /\ cmd.type = "feedback"
      /\ meta[cmd.sock].role = "host"
      /\ meta[cmd.sock].sid \in DOMAIN sessions
      /\ out[i].to \in MemberSockets(meta[cmd.sock].sid)

(* C22: userLeft(name) is sent about a session only by a step that        *)
(* removes the entry of that name from the members of that session.       *)
EntryRemoved(S, N) ==
  /\ S \in DOMAIN sessions
  /\ N \in DOMAIN sessions[S].users
  /\ S \in DOMAIN sessions' => N \notin DOMAIN sessions'[S].users

UserLeftStep ==
  \A i \in Delivered("userLeft")' :
    EntryRemoved(out'[i].ev.sessionId, out'[i].ev.name)

C22_UserLeftOnlyOnRemoval == [][UserLeftStep]_vars

\* the relay of lines 439-676 broadcasts only after s.users.delete(name)
\* returned true
C22_UserLeftOnlyOnRemovalMachine == [][variant = "machine" => UserLeftStep]_vars

(* C23: a leave frame of a member unbinds its connection: after the step  *)
(* the metadata of the connection names no session and no member name,    *)
(* and an answer frame of a connection that no session lists as member    *)
(* delivers no answerReceived.                                            *)
LeaveUnbinds ==
  \A S \in DOMAIN sessions : \A N \in DOMAIN Members(S) :
    (cmd'.type = "leave" /\ MemberGoes(cmd'.sock, S, N)) =>
      /\ meta'[cmd'.sock].sid = <<>>
      /\ meta'[cmd'.sock].name = <<>>

UnboundAnswerSilent ==
  (cmd'.type = "answer" /\ MemberSessions(cmd'.sock) = {}) =>
    Delivered("answerReceived")' = {}

C23_LeaveUnbinds == [][LeaveUnbinds /\ UnboundAnswerSilent]_vars

\* the relay of lines 439-676 resets the metadata of the sender of a leave
C23_LeaveResetsMetadataMachine == [][variant = "machine" => LeaveUnbinds]_vars

(* C24: a frame that violates the sender's role (an answer or a leave of  *)
(* a connection no session lists as member, a feedback or a close of a    *)
(* connection no session records as host) is answered with one error to   *)
(* its sender, sends nothing else, changes no session and leaves the      *)
(* sender's connection open.                                              *)
RoleViolation(c) ==
  \/ c.type \in {"answer", "leave"} /\ MemberSessions(c.sock) = {}
  \/ c.type \in {"feedback", "close"} /\ HostedBy(c.sock) = {}

ErrorToSenderOnly ==
  /\ Len(out') = 1
  /\ out'[1].to = cmd'.sock
  /\ out'[1].ev.type = "error"
  /\ sessions' = sessions
  /\ readyState' = readyState

C24_RoleViolationError == [][RoleViolation(cmd') => ErrorToSenderOnly]_vars

\* the one role check that reports: sendFeedback of a connection whose
\* metadata lacks the host role
C24_FeedbackRoleErrorMvp ==
  [][(variant = "mvp" /\ cmd'.type = "feedback" /\ meta[cmd'.sock].role # "host")
       => ErrorToSenderOnly]_vars

(* C25: a join fails only for an unknown session identifier or for a name *)
(* that is empty after trimming. A join that fails sends one error to the *)
(* joiner, sends nothing else and changes no session; a join of a         *)
(* connection bound to nothing, to a session of the registry and with a   *)
(* name that is not empty, succeeds: the joiner gets joined and is a      *)
(* member of the session afterwards.                                      *)
JoinFails ==
  /\ Len(out') = 1
  /\ out'[1].to = cmd'.sock
  /\ out'[1].ev.type = "error"
  /\ sessions' = sessions

JoinSucceeds(S) ==
  /\ DeliveredTo(out', cmd'.sock, "joined") # {}
  /\ \E n \in DOMAIN sessions'[S].users \ DOMAIN sessions[S].users :
       sessions'[S].users[n].socket = cmd'.sock

JoinOutcome ==
  cmd'.type = "join" =>
    LET S == normalSid(cmd'.sessionId)
    IN  IF S \notin DOMAIN sessions \/ trim(cmd'.name) = <<>>
          THEN JoinFails
          ELSE ~ Bound(cmd'.sock) => JoinSucceeds(S)

C25_JoinFailsOnlyForSidOrName == [][JoinOutcome]_vars

\* joinSession of lines 49-66 has no other way to fail
C25_JoinFailsOnlyForSidOrNameMvp == [][variant = "mvp" => JoinOutcome]_vars

(* C26: a close frame of the host of a session removes the session, sends *)
(* sessionClosed to every open participant, the host included, closes the *)
(* connection of every member and leaves the host bound to nothing.       *)
CloseStep ==
  \A S \in DOMAIN sessions :
    (cmd'.type = "close" /\ HostGone(S)) =>
      /\ S \notin DOMAIN sessions'
      /\ \A c \in Participants(sessions[S]) :
           readyState[c] = "OPEN" => DeliveredTo(out', c, "sessionClosed") # {}
      /\ \A c \in MemberSockets(S) \ {cmd'.sock} : readyState'[c] # "OPEN"
      /\ meta'[cmd'.sock].sid = <<>>

C26_CloseDisconnectsMembers == [][CloseStep]_vars

\* the close handler of lines 615-626 does all of it
C26_CloseDisconnectsMembersMachine == [][variant = "machine" => CloseStep]_vars

(* C27: a setQuestion frame of the host of a session stores exactly the   *)
(* text of the frame as the prompt of that session, empty or not, changes *)
(* nothing else in the registry, and sends question(text) to the host and *)
(* to every member of the session whose connection is open, once per      *)
(* place held, and nothing to anybody else.                               *)
HostSetsQuestion(S) ==
  /\ cmd'.type = "setQuestion"
  /\ S \in HostedBy(cmd'.sock)
  /\ variant = "mvp" => meta[cmd'.sock].role = "host" /\ meta[cmd'.sock].sid = S

QuestionStored(S) ==
  /\ sessions' = [sessions EXCEPT ![S].question = cmd'.text]
  /\ \A i \in DOMAIN out' : out'[i].ev = EvQuestion(cmd'.text)
  /\ \A d \in Sockets :
       Cardinality({i \in DOMAIN out' : out'[i].to = d})
         = IF readyState[d] = "OPEN" THEN Entries(sessions[S], d) ELSE 0

JoinAnnounced(j) ==
  LET S == out'[j].ev.sessionId
      F == out'[j].ev.name
  IN  /\ out'[j].to = cmd'.sock
      /\ DeliveredTo(out', cmd'.sock, "joined") = {j}
      /\ S \in DOMAIN sessions
      /\ out'[j].ev.text = sessions[S].question
      /\ F \in DOMAIN sessions'[S].users
      /\ sessions'[S].users[F].socket = cmd'.sock
      /\ \A d \in Participants(sessions'[S]) :
           readyState[d] = "OPEN" =>
             /\ \E i \in DeliveredTo(out', d, "userJoined") :
                  out'[i].ev.sessionId = S /\ out'[i].ev.name = F
             /\ \E i \in DeliveredTo(out', d, "users") :
                  /\ out'[i].ev.sessionId = S
                  /\ F \in out'[i].ev.users
                  /\ out'[i].ev.users = DOMAIN sessions'[S].users
      /\ \A i \in DeliveredTo(out', cmd'.sock, "userJoined")
                 \cup DeliveredTo(out', cmd'.sock, "users") : j < i

C28_JoinAnnounced ==
  [][cmd'.type = "join" => \A j \in Delivered("joined")' : JoinAnnounced(j)]_vars

\* a connection has just joined a session that had a member already: the
\* host, the earlier member and the joiner were told
C28_Witness ==
  /\ cmd.type = "join"
  /\ \E j \in DeliveredTo(out, cmd.sock, "joined") :
       LET S == out[j].ev.sessionId
       IN  /\ S \in DOMAIN sessions
           /\ sessions[S].host # cmd.sock
           /\ MemberSockets(S) \ {cmd.sock, sessions[S].host} # {}
           /\ \A d \in Participants(sessions[S]) :
                /\ \E i \in DeliveredTo(out, d, "userJoined") :
                     out[i].ev.name = out[j].ev.name
                /\ DeliveredTo(out, d, "users") # {}

(* C29: in a cycle of the liveness monitor every client found with its    *)
(* flag cleared is terminated and not pinged, and every other client has  *)
(* its flag cleared and is sent exactly one ping; hence a connection that *)
(* has not answered its last ping is terminated by the next cycle, the    *)
(* second after its last pong.                                            *)
Pings(o, c) == {i \in DOMAIN o : o[i].to = c /\ o[i].ev = EvPing}

\* an open connection that a cycle pinged and that sent no pong since
Silent(c) == readyState[c] = "OPEN" /\ probe[c] \in {"sent", "resent"}

CycleSorts(c) ==
  /\ ~isAlive[c] => readyState'[c] = "CLOSING" /\ Pings(out', c) = {}
  /\ isAlive[c] =>
       /\ ~isAlive'[c]
       /\ readyState'[c] = readyState[c]
       /\ Cardinality(Pings(out', c)) = IF readyState[c] = "OPEN" THEN 1 ELSE 0

CycleEndsSilent(c) == Silent(c) => readyState'[c] = "CLOSING"

C29_MonitorCycle ==
  [][cmd'.type = "interval" =>
       \A c \in clients : CycleSorts(c) /\ CycleEndsSilent(c)]_vars

\* what the code does keep: each cycle sorts the clients by their flag in
\* both snapshots, and in mvp, where only a pong sets the flag, a silent
\* connection is terminated by the next cycle
C29_MonitorCycleByFlag ==
  [][cmd'.type = "interval" =>
       \A c \in clients :
         CycleSorts(c) /\ (variant = "mvp" => CycleEndsSilent(c))]_vars

(* C30: a connection that has answered every ping it was sent is left    *)
(* open by every cycle of the liveness monitor, whatever commands it and *)
(* the other connections sent since the cycle before.                    *)
Answering(c) == readyState[c] = "OPEN" /\ probe[c] \in {"none", "answered"}

C30_AnsweringSurvives ==
  [][cmd'.type = "interval" =>
       \A c \in Sockets : Answering(c) => readyState'[c] = "OPEN"]_vars

\* a cycle has just pinged again a session's host or member that had
\* answered its ping, and has terminated a connection that had not
C30_Witness ==
  /\ cmd.type = "interval"
  /\ \E c, d \in Sockets :
       /\ readyState[c] = "OPEN"
       /\ probe[c] = "resent"
       /\ Pings(out, c) # {}
       /\ HostedBy(c) \cup MemberSessions(c) # {}
       /\ readyState[d] = "CLOSING"
       /\ probe[d] \in {"sent", "resent"}
       /\ Pings(out, d) = {}

(* C31: a frame that fails to decode is dropped silently: no event is    *)
(* sent to any connection and neither the sessions nor the metadata      *)
(* change.                                                               *)
Undecodable == cmd'.type = "bad"

StateKept == sessions' = sessions /\ meta' = meta /\ readyState' = readyState

C31_UndecodableDropped ==
  [][Undecodable => out' = <<>> /\ StateKept]_vars

\* what the code does keep: the state never changes, and nobody but the
\* sender is sent anything; only the handler of lines 521-523 is silent
C31_UndecodableHarmless ==
  [][Undecodable =>
       /\ StateKept
       /\ \A i \in DOMAIN out' : out'[i].to = cmd'.sock
       /\ variant = "machine" => out' = <<>>]_vars

(* C32: a frame that decodes and whose type is none of the known commands *)
(* is answered with exactly one error event, sent to the sender, and      *)
(* changes neither the sessions nor the metadata.                         *)
UnknownTag == cmd'.type = "unknown"

C32_UnknownTagError ==
  [][UnknownTag => Rejected /\ StateKept]_vars

\* what the code does keep: the state never changes, and the switch of
\* lines 144-153 answers with the error
C32_UnknownTagHarmless ==
  [][UnknownTag =>
       /\ StateKept
       /\ variant = "mvp" => Rejected]_vars

(* C33: the cleanup of a disconnected connection removes from the member *)
(* map of a session that stays registered only an entry that maps to     *)
(* that connection; an entry of its recorded name that belongs to        *)
(* another connection stays.                                             *)
Disconnects == cmd'.type \in {"socketClose", "socketError"}

OthersEntryKept(S, n) ==
  sessions[S].users[n].socket # cmd'.sock =>
    /\ n \in DOMAIN sessions'[S].users
    /\ sessions'[S].users[n] = sessions[S].users[n]

C33_CleanupRemovesOwnEntry ==
  [][Disconnects =>
       \A S \in DOMAIN sessions \cap DOMAIN sessions' :
         \A n \in DOMAIN sessions[S].users : OthersEntryKept(S, n)]_vars

\* what the code does keep: cleanupSocket compares the entry with the
\* socket before it deletes (line 125), on disconnect and on leave
C33_CleanupRemovesOwnEntryMvp ==
  [][variant = "mvp" /\ (Disconnects \/ cmd'.type = "leave") =>
       \A S \in DOMAIN sessions \cap DOMAIN sessions' :
         \A n \in DOMAIN sessions[S].users : OthersEntryKept(S, n)]_vars

(* C34: a connection that hosted a session since destroyed has no rights *)
(* over the session registered later under the same identifier: its     *)
(* setQuestion, close, feedback, answer, leave and disconnect leave that *)
(* session as it was and deliver nothing to its participants.           *)

\* the metadata of c says host of S, and the session registered as S has
\* another host.  In the relay of lines 1-168 only createSession writes the
\* role host (line 42), for the session it has just registered with c as
\* host, and no session changes its host: the session c hosted under S is
\* gone and S names a later one
FormerHost(c, S) ==
  /\ variant = "mvp"
  /\ S \in DOMAIN sessions
  /\ meta[c].role = "host"
  /\ meta[c].sid = S
  /\ sessions[S].host # c

ActsOnSession ==
  cmd'.type \in {"setQuestion", "close", "feedback", "answer", "leave",
                 "socketClose", "socketError"}

SessionUntouched(S) ==
  /\ S \in DOMAIN sessions'
  /\ sessions'[S] = sessions[S]
  /\ \A i \in DOMAIN out' : out'[i].to \notin Participants(sessions[S])

C34_FormerHostHasNoRights ==
  [][\A S \in DOMAIN sessions :
       ActsOnSession /\ FormerHost(cmd'.sock, S) => SessionUntouched(S)]_vars

\* what the code does keep: handleAnswer wants the role student (line 81),
\* so an answer of the former host reaches nobody
C34_FormerHostAnswerSilent ==
  [][\A S \in DOMAIN sessions :
       cmd'.type = "answer" /\ FormerHost(cmd'.sock, S) =>
         out' = <<>> /\ sessions' = sessions]_vars

(* C35: no session outlives its host connection: once the cleanup of a   *)
(* closed connection has run, no registered session has that connection  *)
(* as its host, whatever the connection sent before.                     *)
Departed(c) == readyState[c] = "CLOSED"

C35_NoSessionOutlivesHost ==
  \A c \in Sockets : Departed(c) => HostedBy(c) = {}

\* what the code does keep: the cleanup removes the session that the
\* metadata of the closing host names
NamedSessionRemoved(S) ==
  /\ Disconnects
  /\ meta[cmd'.sock].role = "host"
  /\ meta[cmd'.sock].sid = S
  /\ sessions[S].host = cmd'.sock
  => S \notin DOMAIN sessions'

C35_NamedSessionRemoved ==
  [][\A S \in DOMAIN sessions : NamedSessionRemoved(S)]_vars

(* C36: sessions are isolated: a frame of a connection that is no       *)
(* participant of session B, before or after the frame, changes neither *)
(* the host, the members nor the prompt of B and sends nothing to a     *)
(* connection that is bound to B only.                                  *)
Frames == {"create", "join", "setQuestion", "answer", "feedback", "close",
           "leave", "unknown", "bad"}

Outsider(c, B) ==
  /\ c \notin Participants(sessions[B])
  /\ B \in DOMAIN sessions' => c \notin Participants(sessions'[B])

BoundOnlyTo(d, B) ==
  /\ d \in Participants(sessions[B])
  /\ HostedBy(d) \cup MemberSessions(d) = {B}

Isolated(B) ==
  /\ B \in DOMAIN sessions'
  /\ sessions'[B] = sessions[B]
  /\ \A i \in DOMAIN out' : ~BoundOnlyTo(out'[i].to, B)

C36_SessionsIsolated ==
  [][\A B \in DOMAIN sessions :
       cmd'.type \in Frames /\ Outsider(cmd'.sock, B) => Isolated(B)]_vars

\* what the code does keep: the handlers of lines 1-168 reach a session
\* through the sender's metadata only, so a frame of a connection whose
\* metadata names another session or none leaves B alone
C36_SessionsIsolatedByMetadataMvp ==
  [][\A B \in DOMAIN sessions :
       /\ variant = "mvp"
       /\ cmd'.type \in Frames
       /\ Outsider(cmd'.sock, B)
       /\ meta[cmd'.sock].sid # B
       => Isolated(B)]_vars

(* C37: every member list that is sent carries exactly the names of the  *)
(* member map of its session as the handler leaves it, and every handler *)
(* that changes the names of a session that stays registered sends the   *)
(* list to the session's host if the host's socket is open: the latest   *)
(* list the host was sent is the session's membership.                   *)
ListIsCurrent(i) ==
  LET S == out'[i].ev.sessionId
  IN  /\ S \in DOMAIN sessions'
      /\ out'[i].to \in Participants(sessions'[S])
      /\ out'[i].ev.users = DOMAIN sessions'[S].users

NamesChanged(S) ==
  /\ S \in DOMAIN sessions'
  /\ DOMAIN sessions'[S].users # DOMAIN sessions[S].users

HostToldList(S) ==
  readyState'[sessions'[S].host] = "OPEN" =>
    \E i \in DeliveredTo(out', sessions'[S].host, "users") :
      out'[i].ev.sessionId = S

C37_MemberListCurrent ==
  [][/\ \A i \in Delivered("users")' : ListIsCurrent(i)
     /\ \A S \in DOMAIN sessions : NamesChanged(S) => HostToldList(S)]_vars

\* a member has just left or disconnected from a session that keeps
\* another member, and the host was sent the list of the remaining names
C37_Witness ==
  /\ cmd.type \in {"leave", "socketClose"}
  /\ \E S \in DOMAIN sessions :
       /\ sessions[S].host # cmd.sock
       /\ DOMAIN sessions[S].users # {}
       /\ Delivered("userLeft") # {}
       /\ \E i \in DeliveredTo(out, sessions[S].host, "users") :
            /\ out[i].ev.sessionId = S
            /\ out[i].ev.users = DOMAIN sessions[S].users

(* C38: a participant whose socket is not open, or a send that fails,   *)
(* does not keep a broadcast from the others: whenever an event is      *)
(* broadcast to a session, every participant of that session whose      *)
(* socket is open is sent it.                                           *)

\* the session a broadcast of this step goes to, as the broadcast finds it
Target(S) == IF S \in DOMAIN sessions' THEN sessions'[S] ELSE sessions[S]

\* the participants a broadcast can reach: their socket is open, and it is
\* not the socket whose error or close event is being handled
Working(T) ==
  {d \in Participants(T) :
     readyState[d] = "OPEN" /\ (d = cmd'.sock => readyState'[d] = "OPEN")}

\* cleanupSocket passes the socket it cleans up as `exclude`
Excluded(ty) ==
  IF variant = "mvp" /\ cmd'.type = "leave" /\ ty \in {"userLeft", "sessionClosed"}
    THEN {cmd'.sock} ELSE {}

ReachesAll(i, T) ==
  \A d \in Working(T) \ Excluded(out'[i].ev.type) :
    \E j \in DOMAIN out' : out'[j].to = d /\ out'[j].ev = out'[i].ev

BroadcastReachesWorking(i) ==
  LET e == out'[i].ev
  IN  /\ e.type \in {"users", "userJoined", "userLeft"} =>
           (e.sessionId \in DOMAIN sessions \cup DOMAIN sessions' =>
              ReachesAll(i, Target(e.sessionId)))
      /\ e.type = "sessionClosed" =>
           \E S \in DOMAIN sessions \ DOMAIN sessions' : ReachesAll(i, sessions[S])
      /\ e.type = "question" =>
           \E S \in DOMAIN sessions' :
             /\ sessions'[S].question = e.text
             /\ out'[i].to \in Participants(sessions'[S])
             /\ ReachesAll(i, sessions'[S])

\* a change of a session is broadcast although a participant's socket is
\* not open: new names, a new prompt, the end of the session
ToldAll(T, ty) ==
  \A d \in Working(T) \ Excluded(ty) : DeliveredTo(out', d, ty) # {}

ChangeReachesWorking(S) ==
  IF S \in DOMAIN sessions'
    THEN /\ NamesChanged(S) => ToldAll(sessions'[S], "users")
         /\ sessions'[S].question # sessions[S].question =>
              ToldAll(sessions'[S], "question")
    ELSE ToldAll(sessions[S], "sessionClosed")

C38_BroadcastReachesWorking ==
  [][/\ \A i \in DOMAIN out' : BroadcastReachesWorking(i)
     /\ \A S \in DOMAIN sessions : ChangeReachesWorking(S)]_vars

\* the host has just set the prompt of a session one of whose members has
\* a socket that is no longer open: the question went to the host
C38_Witness ==
  /\ cmd.type = "setQuestion"
  /\ \E S \in HostedBy(cmd.sock) :
       /\ \E d \in MemberSockets(S) : readyState[d] = "CLOSING"
       /\ DeliveredTo(out, cmd.sock, "question") # {}

(* C39: no frame stops the relay: after a frame of any content has been *)
(* handled the process goes on to its next callback, and a frame that   *)
(* does not decode, decodes to null or has an unknown type leaves the   *)
(* registry, the metadata and the sockets as they were.                 *)
Junk == cmd'.type \in {"bad", "null", "unknown"}

\* the handler of the last frame or event returns to the event loop
Serving == cmd # Idle => ENABLED Return

C39_NoFrameStopsRelay ==
  [][Junk => StateKept]_vars /\ []Serving

\* what the code does keep: no frame changes the state in either relay,
\* and the handler of lines 140-154 returns from every frame, its test
\* !msg (line 142) catching the null
C39_NoFrameStopsRelayMvp ==
  [][Junk => StateKept]_vars /\ [](variant = "mvp" => Serving)

(* C40: persistence never influences routing: whether the write of an   *)
(* answer succeeds or fails, the handler leaves the registry as it was, *)
(* delivers the answer to the owner of the session it names, as it      *)
(* would without the write, and returns.                                *)
AnswerRouted(S) ==
  /\ StateKept
  /\ out' = send(readyState, sessions[S].host,
                 EvAnswerReceived(trim(cmd'.name), cmd'.text))

AnswerStep(S) ==
  /\ variant = "machine"
  /\ cmd'.type = "answer"
  /\ toUpperCase(cmd'.sessionId) = S

C40_PersistenceApart ==
  [][\A S \in DOMAIN sessions : AnswerStep(S) => AnswerRouted(S)]_vars
    /\ []Serving

\* what the code does keep: while the writes succeed the answer is routed
\* and the handler returns
C40_PersistenceApartWhileWritesSucceed ==
  [][\A S \in DOMAIN sessions :
       AnswerStep(S) /\ db = "ok" => AnswerRouted(S)]_vars
    /\ [](db # "threw" => Serving)
====
